---- MODULE Spec2Model ----
(***************************************************************************)
(* CrowdfundingPlatformV2 (src/unnamed/part_008): the campaign ledger, the *)
(* vote, the status machine and the disbursement/refund operations, one    *)
(* action per external function of the contract.  A call that hits a       *)
(* failing require reverts and leaves no trace: the step changes nothing.  *)
(* The revert reason of a call is the value of the function's ...Require   *)
(* operator ("" when every require passes).                                *)
(***************************************************************************)
EXTENDS Integers, Sequences, FiniteSets, TLC

(* ------------------------------ bounds --------------------------------- *)
MaxCampaigns == 2
MaxTick == 4

(* --------------------------- program constants ------------------------- *)
VOTING_DURATION == 604800
platformFee == 25
FEE_DENOMINATOR == 1000

Donation == 0
Debit == 1
Reward == 2
Equity == 3
FundingMode == {Donation, Debit, Reward, Equity}
(* the names the test suite gives ordinals 1 and 2 *)
AllOrNothing == Debit
KeepItAll == Reward

CampaignStatus == {"Active", "Completed", "Expired", "UnderVoting", "Failed"}

ZeroAddress == "0x0"
(* the deployer, whom Ownable makes the first owner *)
owner == "owner"
Addrs == {"owner", "alice"}
(* every account the mappings are followed for: the callers above and two *)
(* more backers                                                            *)
Accounts == Addrs \cup {"bob", "carol"}

(* the ids the mappings are read at: MaxCampaigns is never assigned *)
CampaignIds == 0..MaxCampaigns

(* The arguments createCampaign is called with: a well-formed campaign     *)
(* (two contributions always reach its target, so a campaign takes at most *)
(* two) and one ill-formed variant per require of createCampaign.          *)
ValidInputs ==
  { [name |-> "A", description |-> "dA", targetAmount |-> 41, deadline |-> 2,
     driveLink |-> "lA", allowedModes |-> <<Donation>>,
     minContribution |-> 40, maxContribution |-> 40] }

InvalidInputs ==
  { [name |-> "A", description |-> "dA", targetAmount |-> 0, deadline |-> 2,
     driveLink |-> "lA", allowedModes |-> <<Donation>>,
     minContribution |-> 40, maxContribution |-> 40],
    [name |-> "A", description |-> "dA", targetAmount |-> 41, deadline |-> 1,
     driveLink |-> "lA", allowedModes |-> <<Donation>>,
     minContribution |-> 40, maxContribution |-> 40],
    [name |-> "", description |-> "dA", targetAmount |-> 41, deadline |-> 2,
     driveLink |-> "lA", allowedModes |-> <<Donation>>,
     minContribution |-> 40, maxContribution |-> 40],
    [name |-> "A", description |-> "dA", targetAmount |-> 41, deadline |-> 2,
     driveLink |-> "lA", allowedModes |-> << >>,
     minContribution |-> 40, maxContribution |-> 40],
    [name |-> "A", description |-> "dA", targetAmount |-> 41, deadline |-> 2,
     driveLink |-> "lA", allowedModes |-> <<Donation>>,
     minContribution |-> 41, maxContribution |-> 40] }

CreateInputs == ValidInputs \cup InvalidInputs

(* the modes backers say they contribute with *)
ContributeModes == {Donation, Equity}

(* the modes voters choose among *)
VoteModes == {Debit, Reward}

(* msg.value of a contribute call *)
Amounts == {0, 39, 40, 41}

VARIABLES
  now,            \* block.timestamp
  campaignIds,    \* Counters.Counter _campaignIds
  campaignCount,  \* uint256 public campaignCount
  campaigns,      \* mapping(uint256 => Campaign)
  contributions,  \* mapping(uint256 => mapping(address => Contribution[]))
  voterHasVoted,  \* mapping(uint256 => mapping(address => bool))
  voteWeight,     \* mapping(uint256 => mapping(address => uint256))
  votes,          \* mapping(uint256 => mapping(address => FundingMode))
  balance,        \* address(this).balance
  received,       \* ether each address has been sent by the contract
  _owner,         \* Ownable's owner()
  returned        \* the value the latest successful createCampaign returned

vars == <<now, campaignIds, campaignCount, campaigns, contributions,
          voterHasVoted, voteWeight, votes, balance, received, _owner, returned>>

ledger == <<campaignIds, campaignCount, campaigns, contributions,
            voterHasVoted, voteWeight, votes, balance, received, _owner>>

(* A storage slot never written reads as zero: the Campaign at an id that  *)
(* was never assigned.                                                     *)
EmptyCampaign ==
  [creator |-> ZeroAddress, name |-> "", description |-> "", targetAmount |-> 0,
   deadline |-> 0, originalDeadline |-> 0, raisedAmount |-> 0,
   fundsReleased |-> FALSE, driveLink |-> "", allowedModes |-> << >>,
   backersCount |-> 0, votingDeadline |-> 0, isAllOrNothing |-> FALSE,
   votesForAllOrNothing |-> 0, votesForKeepRaised |-> 0, status |-> "Active",
   minContribution |-> 0, maxContribution |-> 0, votingEnabled |-> FALSE,
   totalVotes |-> 0, requiredVotes |-> 0, votingEndTime |-> 0,
   currentMode |-> Donation, backers |-> << >>]

Init ==
  /\ now = 1
  /\ campaignIds = 0
  /\ campaignCount = 0
  /\ campaigns = [c \in CampaignIds |-> EmptyCampaign]
  /\ contributions = [c \in CampaignIds |-> [a \in Accounts |-> << >>]]
  /\ voterHasVoted = [c \in CampaignIds |-> [a \in Accounts |-> FALSE]]
  /\ voteWeight = [c \in CampaignIds |-> [a \in Accounts |-> 0]]
  /\ votes = [c \in CampaignIds |-> [a \in Accounts |-> Donation]]
  /\ balance = 0
  /\ received = [a \in Accounts |-> 0]
  /\ _owner = owner
  /\ returned = 0

(* ------------------------------ outcomes ------------------------------- *)
(* a revert rolls the whole call back *)
Revert == UNCHANGED vars

RECURSIVE SumUnrefunded(_)
(* the loop of requestRefund: the amounts of the entries not yet refunded *)
SumUnrefunded(entries) ==
  IF entries = << >> THEN 0
  ELSE (IF Head(entries).refunded THEN 0 ELSE Head(entries).amount)
       + SumUnrefunded(Tail(entries))

(* --------------------------- createCampaign ---------------------------- *)
(* the requires of createCampaign without the check of the name *)
createCampaignRequire_NoName(in) ==
  IF ~(in.targetAmount > 0) THEN "Target amount must be greater than 0"
  ELSE IF ~(in.deadline > now) THEN "Deadline must be in the future"
  ELSE IF ~(Len(in.allowedModes) > 0) THEN "Must specify at least one funding mode"
  ELSE IF ~(in.minContribution <= in.maxContribution) THEN "Min contribution must be <= max"
  ELSE ""

(* the requires of createCampaign, in order: "" when all pass *)
createCampaignRequire(in) ==
  IF ~(in.targetAmount > 0) THEN "Target amount must be greater than 0"
  ELSE IF ~(in.deadline > now) THEN "Deadline must be in the future"
  ELSE IF ~(Len(in.name) > 0) THEN "Name cannot be empty"
  ELSE IF ~(Len(in.allowedModes) > 0) THEN "Must specify at least one funding mode"
  ELSE IF ~(in.minContribution <= in.maxContribution) THEN "Min contribution must be <= max"
  ELSE ""

(* a record written without the drive link *)
newCampaign_NoLink(old, sender, in) ==
  [old EXCEPT !.creator = sender,
              !.name = in.name,
              !.description = in.description,
              !.targetAmount = in.targetAmount,
              !.deadline = in.deadline,
              !.originalDeadline = in.deadline,
              !.allowedModes = in.allowedModes,
              !.status = "Active",
              !.minContribution = in.minContribution,
              !.maxContribution = in.maxContribution,
              !.votingDeadline = in.deadline + VOTING_DURATION]

(* the record createCampaign writes at the id it assigns *)
newCampaign(old, sender, in) ==
  [old EXCEPT !.creator = sender,
              !.name = in.name,
              !.description = in.description,
              !.targetAmount = in.targetAmount,
              !.deadline = in.deadline,
              !.originalDeadline = in.deadline,
              !.driveLink = in.driveLink,
              !.allowedModes = in.allowedModes,
              !.status = "Active",
              !.minContribution = in.minContribution,
              !.maxContribution = in.maxContribution,
              !.votingDeadline = in.deadline + VOTING_DURATION]

(* a counter that skips an id once the first one is taken *)
increment_Skipping(counter) == IF counter = 0 THEN 1 ELSE counter + 2

(* line 174: Counters.increment *)
increment(counter) == counter + 1

createCampaign(sender, in) ==
  LET e == createCampaignRequire(in)
      campaignId == campaignIds
  IN IF e # "" THEN Revert
     ELSE /\ campaigns' = [campaigns EXCEPT
                             ![campaignId] = newCampaign(@, sender, in)]
          /\ campaignIds' = increment(campaignIds)
          /\ campaignCount' = campaignCount + 1
          /\ returned' = campaignId
          /\ UNCHANGED <<now, _owner, contributions, voterHasVoted, voteWeight, votes,
                         balance, received>>

(* the hook's getCampaignCount: it reads the contract's public             *)
(* campaignCount                                                           *)
getCampaignCount == campaignCount

(* ------------------------------ contribute ----------------------------- *)
(* the requires of contribute without the deadline check *)
contributeRequire_NoDeadline(campaign, value) ==
  IF ~(campaign.status = "Active") THEN "Campaign is not active"
  ELSE IF ~(value > 0) THEN "Contribution must be greater than 0"
  ELSE ""

(* the requires of contribute without the status check *)
contributeRequire_AnyStatus(campaign, value) ==
  IF ~(value > 0) THEN "Contribution must be greater than 0"
  ELSE IF ~(now <= campaign.deadline) THEN "Campaign has ended"
  ELSE ""

(* the requires of contribute, in order: "" when all pass *)
contributeRequire(campaign, value) ==
  IF ~(campaign.status = "Active") THEN "Campaign is not active"
  ELSE IF ~(value > 0) THEN "Contribution must be greater than 0"
  ELSE IF ~(now <= campaign.deadline) THEN "Campaign has ended"
  ELSE ""

(* the raised amount grows only with a backer's first contribution *)
recordBacker_FirstOnly(campaign, sender, value) ==
  [campaign EXCEPT !.raisedAmount =
                      IF \E i \in 1..Len(campaign.backers) : campaign.backers[i] = sender
                      THEN @ ELSE @ + value,
                   !.backersCount = @ + 1,
                   !.backers = Append(@, sender)]

(* the raised amount grows by twice the value sent *)
recordBacker_Double(campaign, sender, value) ==
  [campaign EXCEPT !.raisedAmount = @ + value + value,
                   !.backersCount = @ + 1,
                   !.backers = Append(@, sender)]

(* the backer is recorded and the raised amount is left as it was *)
recordBacker_Uncounted(campaign, sender, value) ==
  [campaign EXCEPT !.backersCount = @ + 1,
                   !.backers = Append(@, sender)]

(* lines 191-194: the contribution is recorded, the raised amount grows,   *)
(* and the sender is counted and pushed as a backer on every contribution. *)
recordBacker(campaign, sender, value) ==
  [campaign EXCEPT !.raisedAmount = @ + value,
                   !.backersCount = @ + 1,
                   !.backers = Append(@, sender)]

(* completion only when the target is exceeded *)
checkTarget_Strict(campaign) ==
  IF campaign.raisedAmount > campaign.targetAmount
  THEN [campaign EXCEPT !.status = "Completed", !.deadline = now]
  ELSE campaign

(* completion that moves the original deadline along with the deadline *)
checkTarget_MovesOriginal(campaign) ==
  IF campaign.raisedAmount >= campaign.targetAmount
  THEN [campaign EXCEPT !.status = "Completed", !.deadline = now,
                        !.originalDeadline = now]
  ELSE campaign

(* lines 197-201: reaching the target completes the campaign at once *)
checkTarget(campaign) ==
  IF campaign.raisedAmount >= campaign.targetAmount
  THEN [campaign EXCEPT !.status = "Completed", !.deadline = now]
  ELSE campaign

(* `mode` is the funding mode the backer has chosen: the function is        *)
(* documented as contributing "with specified funding mode", but its        *)
(* signature is contribute(uint256 campaignId), so the mode never reaches   *)
(* the contract and nothing below reads it.                                 *)
contribute(sender, campaignId, value, mode) ==
  LET campaign == campaigns[campaignId]
      e == contributeRequire(campaign, value)
  IN IF e # "" THEN Revert
     ELSE /\ contributions' = [contributions EXCEPT ![campaignId][sender] =
                                 Append(@, [amount |-> value, refunded |-> FALSE])]
          /\ campaigns' = [campaigns EXCEPT ![campaignId] =
                             checkTarget(recordBacker(campaign, sender, value))]
          /\ balance' = balance + value
          /\ UNCHANGED <<now, _owner, campaignIds, campaignCount, voterHasVoted,
                         voteWeight, votes, received, returned>>

(* ------------------------------ startVoting ---------------------------- *)
startVotingRequire(campaign, sender) ==
  IF ~(sender = campaign.creator) THEN "Only creator can start voting"
  ELSE IF ~(~campaign.votingEnabled) THEN "Voting already started"
  ELSE IF ~(campaign.raisedAmount >= campaign.targetAmount) THEN "Target not reached"
  ELSE ""

startVoting(sender, campaignId) ==
  LET campaign == campaigns[campaignId]
      e == startVotingRequire(campaign, sender)
  IN IF e # "" THEN Revert
     ELSE /\ campaigns' = [campaigns EXCEPT ![campaignId] =
                [campaign EXCEPT !.votingEnabled = TRUE,
                                 !.votingEndTime = now + VOTING_DURATION,
                                 !.requiredVotes = campaign.backersCount \div 2]]
          /\ UNCHANGED <<now, _owner, campaignIds, campaignCount, contributions,
                         voterHasVoted, voteWeight, votes, balance, received, returned>>

(* --------------------------------- vote -------------------------------- *)
(* getCampaignBackers: the first backersCount entries of backers that have *)
(* a contribution, packed to the front of an array of backersCount slots.  *)
getCampaignBackers(campaign, contribs) ==
  LET kept == SelectSeq(SubSeq(campaign.backers, 1, campaign.backersCount),
                        LAMBDA b : Len(contribs[b]) > 0)
  IN kept \o [i \in 1..(campaign.backersCount - Len(kept)) |-> ZeroAddress]

RECURSIVE modeVotes(_, _, _, _, _)
(* lines 257-262: the weight accumulated for mode index m over the array *)
modeVotes(backers, hasVoted, chosen, weight, m) ==
  IF backers = << >> THEN 0
  ELSE LET b == Head(backers)
       IN (IF b \in Accounts /\ hasVoted[b] /\ chosen[b] = m THEN weight[b] ELSE 0)
          + modeVotes(Tail(backers), hasVoted, chosen, weight, m)

RECURSIVE findWinner_LastWins(_, _, _, _)
(* the scan keeping the last tally that is not smaller *)
findWinner_LastWins(tally, i, maxVotes, winningMode) ==
  IF i > 3 THEN winningMode
  ELSE IF tally[i] >= maxVotes THEN findWinner_LastWins(tally, i + 1, tally[i], i)
  ELSE findWinner_LastWins(tally, i + 1, maxVotes, winningMode)

RECURSIVE findWinner(_, _, _, _)
(* lines 265-273: scan the four modes from i upward, keeping the first     *)
(* strictly greater tally                                                  *)
findWinner(tally, i, maxVotes, winningMode) ==
  IF i > 3 THEN winningMode
  ELSE IF tally[i] > maxVotes THEN findWinner(tally, i + 1, tally[i], i)
  ELSE findWinner(tally, i + 1, maxVotes, winningMode)

(* the winning mode is recorded and the voting is left enabled *)
endVoting_StaysOpen(campaign, contribs, hasVoted, chosen, weight) ==
  LET backers == getCampaignBackers(campaign, contribs)
      tally == [m \in FundingMode |-> modeVotes(backers, hasVoted, chosen, weight, m)]
      winningMode == findWinner(tally, 0, 0, Donation)
  IN [campaign EXCEPT !.currentMode = winningMode]

(* endVoting, given the vote mappings as they are when it runs *)
endVoting(campaign, contribs, hasVoted, chosen, weight) ==
  LET backers == getCampaignBackers(campaign, contribs)
      tally == [m \in FundingMode |-> modeVotes(backers, hasVoted, chosen, weight, m)]
      winningMode == findWinner(tally, 0, 0, Donation)
  IN [campaign EXCEPT !.currentMode = winningMode, !.votingEnabled = FALSE]

(* the requires of vote without the window check *)
voteRequire_NoWindow(campaign, hasVoted, entries) ==
  IF ~campaign.votingEnabled THEN "Voting not started"
  ELSE IF ~(~hasVoted) THEN "Already voted"
  ELSE IF ~(Len(entries) > 0) THEN "No contribution found"
  ELSE ""

(* the requires of vote without the "Already voted" check *)
voteRequire_Repeatable(campaign, hasVoted, entries) ==
  IF ~campaign.votingEnabled THEN "Voting not started"
  ELSE IF ~(now <= campaign.votingEndTime) THEN "Voting ended"
  ELSE IF ~(Len(entries) > 0) THEN "No contribution found"
  ELSE ""

(* the requires of vote (lines 227-230), in order: "" when all pass *)
voteRequire(campaign, hasVoted, entries) ==
  IF ~campaign.votingEnabled THEN "Voting not started"
  ELSE IF ~(now <= campaign.votingEndTime) THEN "Voting ended"
  ELSE IF ~(~hasVoted) THEN "Already voted"
  ELSE IF ~(Len(entries) > 0) THEN "No contribution found"
  ELSE ""

(* line 232: the weight of a vote *)
voteWeightOf(entries) == entries[1].amount

vote(sender, campaignId, mode) ==
  LET campaign == campaigns[campaignId]
      entries == contributions[campaignId][sender]
      e == voteRequire(campaign, voterHasVoted[campaignId][sender], entries)
  IN IF e # "" THEN Revert
     ELSE LET weight == voteWeightOf(entries)
              chosen == [votes[campaignId] EXCEPT ![sender] = mode]
              weights == [voteWeight[campaignId] EXCEPT ![sender] = weight]
              voted == [voterHasVoted[campaignId] EXCEPT ![sender] = TRUE]
              counted == [campaign EXCEPT !.totalVotes = @ + weight]
          IN /\ votes' = [votes EXCEPT ![campaignId] = chosen]
             /\ voteWeight' = [voteWeight EXCEPT ![campaignId] = weights]
             /\ voterHasVoted' = [voterHasVoted EXCEPT ![campaignId] = voted]
             /\ campaigns' = [campaigns EXCEPT ![campaignId] =
                   IF counted.totalVotes >= counted.requiredVotes
                   THEN endVoting(counted, contributions[campaignId], voted, chosen, weights)
                   ELSE counted]
             /\ UNCHANGED <<now, _owner, campaignIds, campaignCount, contributions,
                            balance, received, returned>>

(* --------------------------- finalizeCampaign -------------------------- *)
campaignExists(campaignId) == campaignId < campaignIds

(* the requires of finalizeCampaign without the status check *)
finalizeRequire_NoStatus(campaignId, campaign) ==
  IF ~campaignExists(campaignId) THEN "Campaign does not exist"
  ELSE IF ~(now > campaign.votingDeadline) THEN "Voting period not ended"
  ELSE IF ~(~campaign.fundsReleased) THEN "Funds already released"
  ELSE ""

(* the requires of finalizeCampaign (modifier, then lines 306-308), in      *)
(* order: "" when all pass                                                 *)
finalizeRequire(campaignId, campaign) ==
  IF ~campaignExists(campaignId) THEN "Campaign does not exist"
  ELSE IF ~(now > campaign.votingDeadline) THEN "Voting period not ended"
  ELSE IF ~(campaign.status = "UnderVoting") THEN "Campaign not in voting state"
  ELSE IF ~(~campaign.fundsReleased) THEN "Funds already released"
  ELSE ""

(* the rate read as basis points of 10000 *)
feeOf_PerTenThousand(raisedAmount) == (raisedAmount * platformFee) \div 10000

(* line 321 *)
feeOf(raisedAmount) == (raisedAmount * platformFee) \div FEE_DENOMINATOR

(* a transfer whose failure at the recipient goes unnoticed *)
transferOk_Unchecked(held, amount, accepts) == held >= amount

(* address.transfer(amount): reverts when the contract holds less than     *)
(* amount or when the recipient does not accept the ether                  *)
transferOk(held, amount, accepts) == held >= amount /\ accepts

(* creatorAccepts / ownerAccepts: whether the recipient's receive hook lets *)
(* the 2300-gas transfer through                                           *)
finalizeCampaign(sender, campaignId, creatorAccepts, ownerAccepts) ==
  LET campaign == campaigns[campaignId]
      e == finalizeRequire(campaignId, campaign)
      isAllOrNothing == campaign.votesForAllOrNothing > campaign.votesForKeepRaised
      fee == feeOf(campaign.raisedAmount)
      amount == campaign.raisedAmount - fee
  IN IF e # "" THEN Revert
     ELSE IF isAllOrNothing /\ campaign.raisedAmount < campaign.targetAmount
     THEN /\ campaigns' = [campaigns EXCEPT ![campaignId] =
                [campaign EXCEPT !.isAllOrNothing = isAllOrNothing,
                                 !.status = "Failed"]]
          /\ UNCHANGED <<now, _owner, campaignIds, campaignCount, contributions,
                         voterHasVoted, voteWeight, votes, balance, received, returned>>
     ELSE IF ~(/\ transferOk(balance, amount, creatorAccepts)
               /\ transferOk(balance - amount, fee, ownerAccepts))
     THEN Revert
     ELSE /\ campaigns' = [campaigns EXCEPT ![campaignId] =
                [campaign EXCEPT !.isAllOrNothing = isAllOrNothing,
                                 !.fundsReleased = TRUE,
                                 !.status = "Completed"]]
          /\ balance' = balance - amount - fee
          /\ received' = [[received EXCEPT ![campaign.creator] = @ + amount]
                            EXCEPT ![_owner] = @ + fee]
          /\ UNCHANGED <<now, _owner, campaignIds, campaignCount, contributions,
                         voterHasVoted, voteWeight, votes, returned>>

(* ----------------------------- requestRefund --------------------------- *)
(* the requires of requestRefund without the status check *)
refundRequire_AnyStatus(campaignId, campaign) ==
  IF ~campaignExists(campaignId) THEN "Campaign does not exist"
  ELSE ""

(* the modifier and first require of requestRefund, in order *)
refundRequire(campaignId, campaign) ==
  IF ~campaignExists(campaignId) THEN "Campaign does not exist"
  ELSE IF ~(campaign.status = "Failed") THEN "Refunds not available"
  ELSE ""

markRefunded(entries) ==
  [i \in 1..Len(entries) |-> [entries[i] EXCEPT !.refunded = TRUE]]

requestRefund(sender, campaignId, senderAccepts) ==
  LET campaign == campaigns[campaignId]
      e == refundRequire(campaignId, campaign)
      userContributions == contributions[campaignId][sender]
      refundAmount == SumUnrefunded(userContributions)
  IN IF e # "" THEN Revert
     ELSE IF ~(refundAmount > 0)
     THEN Revert
     ELSE IF ~transferOk(balance, refundAmount, senderAccepts)
     THEN Revert
     ELSE /\ contributions' = [contributions EXCEPT ![campaignId][sender] =
                                 markRefunded(userContributions)]
          /\ campaigns' = [campaigns EXCEPT ![campaignId].raisedAmount =
                             @ - refundAmount]
          /\ balance' = balance - refundAmount
          /\ received' = [received EXCEPT ![sender] = @ + refundAmount]
          /\ UNCHANGED <<now, _owner, campaignIds, campaignCount, voterHasVoted,
                         voteWeight, votes, returned>>

(* -------------------------- updateCampaignStatus ----------------------- *)
(* the deadline check without the status check *)
updatedStatus_AnyStatus(campaign) ==
  IF now >= campaign.deadline
  THEN "UnderVoting"
  ELSE campaign.status

(* lines 373-376 *)
updatedStatus(campaign) ==
  IF campaign.status = "Active" /\ now >= campaign.deadline
  THEN "UnderVoting"
  ELSE campaign.status

updateCampaignStatus(sender, campaignId) ==
  IF ~campaignExists(campaignId)
  THEN Revert
  ELSE /\ campaigns' = [campaigns EXCEPT ![campaignId].status =
                          updatedStatus(campaigns[campaignId])]
       /\ UNCHANGED <<now, _owner, campaignIds, campaignCount, contributions,
                      voterHasVoted, voteWeight, votes, balance, received, returned>>

(* ------------------------- what the contract inherits ------------------ *)
(* The contract is ReentrancyGuard and Ownable (lines 4-5, 12): it has     *)
(* Ownable's public transferOwnership, and finalizeCampaign and            *)
(* requestRefund run under ReentrancyGuard's nonReentrant.                 *)
transferOwnershipRequire(sender, newOwner) ==
  IF ~(_owner = sender) THEN "Ownable: caller is not the owner"
  ELSE IF ~(newOwner # ZeroAddress) THEN "Ownable: new owner is the zero address"
  ELSE ""

transferOwnership(sender, newOwner) ==
  IF transferOwnershipRequire(sender, newOwner) # "" THEN Revert
  ELSE /\ _owner' = newOwner
       /\ UNCHANGED <<now, campaignIds, campaignCount, campaigns, contributions,
                      voterHasVoted, voteWeight, votes, balance, received, returned>>

(* the flag and the status written only after the transfers *)
stateAtTransfer_Late(campaign, isAllOrNothing) ==
  [campaign EXCEPT !.isAllOrNothing = isAllOrNothing]

(* lines 314-325: the campaign as it is stored when the transfers of lines *)
(* 327-328 are issued, which is what a recipient's receive hook observes   *)
stateAtTransfer(campaign, isAllOrNothing) ==
  [campaign EXCEPT !.isAllOrNothing = isAllOrNothing,
                   !.fundsReleased = TRUE,
                   !.status = "Completed"]

(* what a finalizeCampaign call made from inside a receive hook meets:     *)
(* the modifiers in order (campaignExists, nonReentrant with the guard     *)
(* `entered`), then the requires on the campaign as the hook observes it   *)
nestedFinalizeRequire(campaignId, seen, entered) ==
  IF ~campaignExists(campaignId) THEN "Campaign does not exist"
  ELSE IF entered THEN "ReentrancyGuard: reentrant call"
  ELSE finalizeRequire(campaignId, seen)

(* finalizeCampaign where the creator's receive hook calls                 *)
(* finalizeCampaign(campaignId) again.  When the nested call reverts the   *)
(* hook either lets the revert through (the transfer and the outer call    *)
(* revert) or catches it and accepts the ether; were the nested call to    *)
(* pass, the campaign would be paid out a second time.                     *)
finalizeCampaignReentered(sender, campaignId, caught) ==
  LET campaign == campaigns[campaignId]
      e == finalizeRequire(campaignId, campaign)
      isAllOrNothing == campaign.votesForAllOrNothing > campaign.votesForKeepRaised
      seen == stateAtTransfer(campaign, isAllOrNothing)
      fee == feeOf(campaign.raisedAmount)
      amount == campaign.raisedAmount - fee
  IN IF e # "" \/ (isAllOrNothing /\ campaign.raisedAmount < campaign.targetAmount)
     THEN finalizeCampaign(sender, campaignId, TRUE, TRUE)
     ELSE IF nestedFinalizeRequire(campaignId, seen, TRUE) # ""
     THEN IF caught THEN finalizeCampaign(sender, campaignId, TRUE, TRUE) ELSE Revert
     ELSE IF balance < 2 * (amount + fee) THEN Revert
     ELSE /\ campaigns' = [campaigns EXCEPT ![campaignId] = seen]
          /\ balance' = balance - 2 * (amount + fee)
          /\ received' = [[received EXCEPT ![campaign.creator] = @ + 2 * amount]
                            EXCEPT ![_owner] = @ + 2 * fee]
          /\ UNCHANGED <<now, _owner, campaignIds, campaignCount, contributions,
                         voterHasVoted, voteWeight, votes, returned>>

(* -------------------------------- events ------------------------------- *)
(* one entry of the log a call emits; the fields an event does not carry   *)
(* are left at zero                                                        *)
Event(name, campaignId, who, amount, status) ==
  [name |-> name, campaignId |-> campaignId, who |-> who, amount |-> amount,
   status |-> status]

(* lines 197-203: what a successful contribute emits.  `campaign` is the   *)
(* record before the call.                                                 *)
contributeEvents(campaignId, campaign, sender, value) ==
  (IF campaign.raisedAmount + value >= campaign.targetAmount
   THEN <<Event("CampaignCompleted", campaignId, ZeroAddress, 0, "")>>
   ELSE << >>)
  \o <<Event("ContributionReceived", campaignId, sender, value, "")>>

(* lines 316-331: what a successful finalizeCampaign emits *)
finalizeEvents(campaignId, campaign) ==
  IF /\ campaign.votesForAllOrNothing > campaign.votesForKeepRaised
     /\ campaign.raisedAmount < campaign.targetAmount
  THEN <<Event("CampaignStatusUpdated", campaignId, ZeroAddress, 0, "Failed")>>
  ELSE <<Event("FundsReleased", campaignId, campaign.creator,
               campaign.raisedAmount - feeOf(campaign.raisedAmount), ""),
         Event("CampaignStatusUpdated", campaignId, ZeroAddress, 0, "Completed")>>

(* lines 373-376: what a successful updateCampaignStatus emits *)
updateCampaignStatusEvents(campaignId, campaign) ==
  IF campaign.status = "Active" /\ now >= campaign.deadline
  THEN <<Event("CampaignStatusUpdated", campaignId, ZeroAddress, 0, "UnderVoting")>>
  ELSE << >>

(* -------------------------------- getters ------------------------------ *)
(* lines 382-419: the read snapshot of a campaign; `error` is the revert   *)
(* reason, "" when the call returns                                        *)
getCampaign(campaignId) ==
  IF ~(campaignId < campaignIds)
  THEN [error |-> "Campaign does not exist"]
  ELSE LET campaign == campaigns[campaignId]
       IN [error |-> "",
           creator |-> campaign.creator,
           name |-> campaign.name,
           description |-> campaign.description,
           targetAmount |-> campaign.targetAmount,
           deadline |-> campaign.deadline,
           raisedAmount |-> campaign.raisedAmount,
           fundsReleased |-> campaign.fundsReleased,
           driveLink |-> campaign.driveLink,
           allowedModes |-> campaign.allowedModes,
           status |-> campaign.status,
           votingDeadline |-> campaign.votingDeadline,
           votesForAllOrNothing |-> campaign.votesForAllOrNothing,
           votesForKeepRaised |-> campaign.votesForKeepRaised]

(* lines 424-430 *)
getContributions(campaignId, contributor) == contributions[campaignId][contributor]

(* ------------------------------- the clock ----------------------------- *)
(* block.timestamp moves forward between calls, by a second or by a whole  *)
(* voting period; the clock is followed for MaxTick seconds from the start *)
(* and from the end of one voting period.                                  *)
advanceTime(d) ==
  /\ now + d <= VOTING_DURATION + MaxTick
  /\ (now + d) % VOTING_DURATION <= MaxTick
  /\ (now + d) % VOTING_DURATION >= 1
  /\ now' = now + d
  /\ UNCHANGED <<ledger, returned>>

(* ------------------------------ the system ----------------------------- *)
(* Spec follows one campaign (id 0) through its whole life, next to an id  *)
(* that is never assigned (id 1), under every caller and every input.      *)
Called == {0, 1}

(* one call of any function by any caller, or time passing; voters choose  *)
(* among voteModes                                                         *)
Step(voteModes) ==
  \/ \E s \in Addrs, in \in CreateInputs :
        /\ (createCampaignRequire(in) = "" => campaignIds = 0)
        /\ createCampaign(s, in)
  \/ \E s \in Addrs, c \in Called, v \in Amounts, m \in ContributeModes :
        contribute(s, c, v, m)
  \/ \E s \in Addrs, c \in Called : startVoting(s, c)
  \/ \E s \in Addrs, c \in Called, m \in voteModes : vote(s, c, m)
  \/ \E s \in Addrs, c \in Called, ca \in BOOLEAN, oa \in BOOLEAN :
        finalizeCampaign(s, c, ca, oa)
  \/ \E s \in Addrs, c \in Called, sa \in BOOLEAN : requestRefund(s, c, sa)
  \/ \E s \in Addrs, c \in Called : updateCampaignStatus(s, c)
  \/ \E d \in {1, VOTING_DURATION} : advanceTime(d)

Next == Step(VoteModes)

Spec == Init /\ [][Next]_vars

(* RegistrySpec fills the registry: up to MaxCampaigns campaigns.  Every   *)
(* caller tries every ill-formed input; the administrator creates the      *)
(* well-formed campaign of ValidInputs and alice a second one with other   *)
(* arguments; every caller contributes, and the campaigns are moved        *)
(* through their statuses.                                                 *)
RegistryInputs ==
  CreateInputs \cup
  { [name |-> "B", description |-> "dB", targetAmount |-> 40, deadline |-> 3,
     driveLink |-> "lB", allowedModes |-> <<Donation, Equity>>,
     minContribution |-> 39, maxContribution |-> 41] }

RegistryCalls ==
  (Addrs \X InvalidInputs) \cup ({owner} \X ValidInputs)
     \cup ({"alice"} \X (RegistryInputs \ CreateInputs))

RegistryNext ==
  \/ \E call \in RegistryCalls :
        /\ (createCampaignRequire(call[2]) = "" => campaignIds < MaxCampaigns)
        /\ createCampaign(call[1], call[2])
  \/ \E s \in Addrs, c \in CampaignIds : contribute(s, c, 40, Donation)
  \/ \E c \in CampaignIds : updateCampaignStatus("alice", c)
  \/ advanceTime(1)

RegistrySpec == Init /\ [][RegistryNext]_vars

(* ShortfallSpec: the callers cooperate.  Every backer who votes casts the *)
(* same vote (Debit, ordinal 1), every recipient accepts its transfer, and *)
(* a call that can change the state is eventually made:                    *)
(* nothing stops a caller from sending a transaction, and the chain        *)
(* executes every transaction it is sent.                                  *)
ShortfallNext == Step({Debit})

Cooperation ==
  /\ WF_vars(\E d \in {1, VOTING_DURATION} : advanceTime(d))
  /\ WF_vars(\E s \in Addrs, c \in Called : updateCampaignStatus(s, c))
  /\ WF_vars(\E s \in Addrs, c \in Called : startVoting(s, c))
  /\ WF_vars(\E s \in Addrs, c \in Called : vote(s, c, Debit))
  /\ WF_vars(\E s \in Addrs, c \in Called : finalizeCampaign(s, c, TRUE, TRUE))
  /\ WF_vars(\E s \in Addrs, c \in Called : requestRefund(s, c, TRUE))

ShortfallSpec == Init /\ [][ShortfallNext]_vars /\ Cooperation

(* QuorumSpec: one campaign with target 5, funded in amounts of 1          *)
(* and 2 by up to four backers, any of whom may contribute repeatedly;     *)
(* then voting is started (and restarted) and the backers vote.            *)
QuorumInput ==
  [name |-> "Q", description |-> "dQ", targetAmount |-> 5,
   deadline |-> 2, driveLink |-> "lQ", allowedModes |-> <<Donation, Debit, Reward>>,
   minContribution |-> 1, maxContribution |-> 2]

QuorumNext ==
  \/ campaignIds = 0 /\ createCampaign("alice", QuorumInput)
  \/ \E s \in Accounts, v \in {1, 2} : contribute(s, 0, v, Donation)
  \/ \E s \in {"alice", "bob"} : startVoting(s, 0)
  \/ \E s \in Accounts, m \in VoteModes : vote(s, 0, m)

QuorumSpec == Init /\ [][QuorumNext]_vars

(* InheritedSpec: one campaign, created by alice and funded below its      *)
(* target, is moved to UnderVoting and finalized, while ownership of the   *)
(* contract is transferred and the creator's receive hook re-enters.       *)
InheritedNext ==
  \/ campaignIds = 0 /\ \E in \in ValidInputs : createCampaign("alice", in)
  \/ \E s \in Addrs, v \in {39, 40} : contribute(s, 0, v, Donation)
  \/ \E s \in Addrs : updateCampaignStatus(s, 0)
  \/ \E s \in Addrs, newOwner \in Addrs \cup {ZeroAddress} :
        transferOwnership(s, newOwner)
  \/ \E s \in Addrs, ca \in BOOLEAN, oa \in BOOLEAN : finalizeCampaign(s, 0, ca, oa)
  \/ \E s \in Addrs, caught \in BOOLEAN : finalizeCampaignReentered(s, 0, caught)
  \/ \E d \in {1, VOTING_DURATION} : advanceTime(d)

InheritedSpec == Init /\ [][InheritedNext]_vars

(* =============================== claims =============================== *)
RECURSIVE SumOver(_, _)
SumOver(S, f) ==
  IF S = {} THEN 0
  ELSE LET x == CHOOSE y \in S : TRUE IN f[x] + SumOver(S \ {x}, f)

(* what campaign c's backers hold in entries not yet refunded *)
TotalUnrefunded(c) ==
  SumOver(Accounts, [a \in Accounts |-> SumUnrefunded(contributions[c][a])])

(* the addresses with at least one contribution entry at campaign c *)
Contributors(c) == {a \in Accounts : Len(contributions[c][a]) > 0}

(* C1: in every reachable state, every campaign's raisedAmount is the sum  *)
(* of the amounts of its contribution entries, over all backers, whose     *)
(* refunded flag is false.                                                 *)
C1_RaisedIsSum ==
  \A c \in CampaignIds : campaigns[c].raisedAmount = TotalUnrefunded(c)

(* two backers hold entries at a campaign that took both contributions *)
C1_Witness ==
  \E c \in CampaignIds :
     /\ Cardinality(Contributors(c)) = 2
     /\ campaigns[c].raisedAmount = 79

C3_Claim ==
  \A c \in Called :
     (campaigns[c].status = "Completed" /\ ~campaigns[c].fundsReleased)
       => finalizeRequire(c, campaigns[c]) = ""

(* a campaign whose deadline has passed with the target missed and that    *)
(* has a backer                                                            *)
Shortfall(c) ==
  /\ campaignExists(c)
  /\ now >= campaigns[c].deadline
  /\ campaigns[c].raisedAmount < campaigns[c].targetAmount
  /\ campaigns[c].backersCount > 0

(* the campaign is Failed and every backer has been refunded in full *)
FailedAndRefunded(c) ==
  /\ campaigns[c].status = "Failed"
  /\ campaigns[c].raisedAmount = 0
  /\ \A a \in Accounts : \A i \in 1..Len(contributions[c][a]) :
        contributions[c][a][i].refunded

(* C4: a campaign whose deadline has passed with raisedAmount below        *)
(* targetAmount is brought by its callers (status update, backers voting   *)
(* the all-or-nothing mode, finalization, refund calls) to status Failed   *)
(* with every backer refunded and raisedAmount 0.                          *)
C4_Claim == \A c \in Called : Shortfall(c) ~> FailedAndRefunded(c)

AllowedTransitions ==
  { <<"Active", "Completed">>, <<"Active", "UnderVoting">>,
    <<"Active", "Expired">>, <<"UnderVoting", "Completed">>,
    <<"UnderVoting", "Failed">> }

(* C5: every change of a campaign's status is one of Active->Completed,    *)
(* Active->UnderVoting, Active->Expired, UnderVoting->Completed,           *)
(* UnderVoting->Failed (so Completed and Failed are never left), and a     *)
(* campaign is Active when it is created.                                  *)
C5_StatusTransitions ==
  [][/\ \A c \in CampaignIds :
          campaigns'[c].status # campaigns[c].status =>
            <<campaigns[c].status, campaigns'[c].status>> \in AllowedTransitions
     /\ campaignIds' # campaignIds => campaigns'[campaignIds].status = "Active"]_vars

(* a campaign went Active -> UnderVoting -> Completed and time moved on *)
C5_Witness ==
  \E c \in Called :
     /\ campaigns[c].status = "Completed"
     /\ campaigns[c].fundsReleased
     /\ now > campaigns[c].votingDeadline + 1

(* C6: ids are assigned 0, 1, 2, ... without gap or reuse: the records     *)
(* written are exactly those at the ids below the counter, the latest      *)
(* successful createCampaign returned the counter minus one, the public    *)
(* campaignCount equals the internal counter, and getCampaignCount is the  *)
(* number of campaigns created (a rejected creation writes no record and   *)
(* moves no counter).                                                      *)
C6_DenseIds ==
  /\ campaignCount = campaignIds
  /\ \A c \in CampaignIds : (campaigns[c].creator # ZeroAddress) <=> (c < campaignIds)
  /\ getCampaignCount = Cardinality({c \in CampaignIds : campaigns[c].creator # ZeroAddress})
  /\ campaignIds > 0 => returned = campaignIds - 1

(* a second campaign was created and got id 1 *)
C6_Witness ==
  /\ campaignCount >= 2
  /\ returned = campaignCount - 1
  /\ campaigns[1].creator # ZeroAddress

(* C7: a contribute that brings raisedAmount to targetAmount or above      *)
(* leaves the campaign Completed with its deadline set to the time of the  *)
(* call, in that same step, coming straight from Active.                   *)
C7_TargetCompletes ==
  [][\A c \in Called :
       (/\ campaigns'[c].raisedAmount > campaigns[c].raisedAmount
        /\ campaigns'[c].raisedAmount >= campaigns[c].targetAmount)
       => /\ campaigns[c].status = "Active"
          /\ campaigns'[c].status = "Completed"
          /\ campaigns'[c].deadline = now
          /\ ~campaigns'[c].votingEnabled]_vars

(* the target was reached before the deadline and the deadline moved to    *)
(* the time of that contribution                                           *)
C7_Witness ==
  \E c \in Called :
     /\ campaigns[c].status = "Completed"
     /\ campaigns[c].raisedAmount = campaigns[c].targetAmount
     /\ campaigns[c].deadline = 1
     /\ campaigns[c].originalDeadline = 2
     /\ ~campaigns[c].votingEnabled

InAllowedModes(campaign, mode) ==
  \E i \in 1..Len(campaign.allowedModes) : campaign.allowedModes[i] = mode

(* C8: a contribute call takes effect only if the campaign exists, is      *)
(* Active, the amount is positive, the deadline has not passed and the     *)
(* backer's chosen mode is one of the campaign's allowedModes.             *)
C8_Claim ==
  [][\A s \in Addrs, c \in Called, v \in Amounts, m \in ContributeModes :
       (contribute(s, c, v, m) /\ contributions' # contributions)
       => /\ campaignExists(c)
          /\ campaigns[c].status = "Active"
          /\ v > 0
          /\ now <= campaigns[c].deadline
          /\ InAllowedModes(campaigns[c], m)]_vars

(* C9: for an Active campaign before its deadline, contribute accepts      *)
(* minContribution and maxContribution and rejects minContribution - 1 and *)
(* maxContribution + 1, so every recorded entry lies within the bounds.    *)
C9_Claim ==
  \A c \in Called :
     LET campaign == campaigns[c] IN
     /\ (campaignExists(c) /\ campaign.status = "Active" /\ now <= campaign.deadline)
          => /\ contributeRequire(campaign, campaign.minContribution) = ""
             /\ contributeRequire(campaign, campaign.maxContribution) = ""
             /\ contributeRequire(campaign, campaign.minContribution - 1) # ""
             /\ contributeRequire(campaign, campaign.maxContribution + 1) # ""
     /\ \A a \in Accounts : \A i \in 1..Len(contributions[c][a]) :
           /\ campaign.minContribution <= contributions[c][a][i].amount
           /\ contributions[c][a][i].amount <= campaign.maxContribution

(* C10: the backer sequence holds no address twice and backersCount is the *)
(* number of distinct addresses that have contributed.                     *)
C10_Claim ==
  \A c \in Called :
     /\ \A i, j \in 1..Len(campaigns[c].backers) :
           campaigns[c].backers[i] = campaigns[c].backers[j] => i = j
     /\ campaigns[c].backersCount = Cardinality(Contributors(c))

(* C11: startVoting passes its requires exactly when the caller is the     *)
(* campaign's creator, voting is not enabled, and the target is reached or *)
(* the deadline has passed; so the creator can start voting on a campaign  *)
(* whose deadline passed with the target missed.                           *)
C11_Claim ==
  \A c \in Called, s \in Addrs :
     (startVotingRequire(campaigns[c], s) = "")
       <=> /\ s = campaigns[c].creator
           /\ ~campaigns[c].votingEnabled
           /\ \/ campaigns[c].raisedAmount >= campaigns[c].targetAmount
              \/ now > campaigns[c].deadline

(* C12 as amended: once an account's vote on a campaign has succeeded,     *)
(* every later vote call by that account on that campaign fails a require  *)
(* (so it changes nothing), and its voted flag, recorded mode and recorded *)
(* weight stay as they are through every later step.  The                  *)
(* rejection is "Already voted" while voting is enabled and within its     *)
(* window, and otherwise the error of the earlier require ("Voting not     *)
(* started", "Voting ended").                                              *)
C12_VoteOnce ==
  [][\A c \in Called, a \in Addrs :
       voterHasVoted[c][a] =>
         LET e == voteRequire(campaigns[c], voterHasVoted[c][a], contributions[c][a])
         IN /\ e # ""
            /\ (campaigns[c].votingEnabled /\ now <= campaigns[c].votingEndTime)
                 => e = "Already voted"
            /\ voterHasVoted'[c][a]
            /\ votes'[c][a] = votes[c][a]
            /\ voteWeight'[c][a] = voteWeight[c][a]]_vars

(* an account has voted and voting on the campaign is open again, within   *)
(* its window, with time having passed since                               *)
C12_Witness ==
  \E c \in Called, a \in Addrs :
     /\ voterHasVoted[c][a]
     /\ campaigns[c].votingEnabled
     /\ now <= campaigns[c].votingEndTime
     /\ now > 2

(* C12 as claimed: after an account's vote on a campaign has succeeded,    *)
(* every later vote call by that account on that campaign is rejected with *)
(* "Already voted", and its voted flag, recorded mode and recorded weight  *)
(* stay as they are.                                                       *)
C12_Claim ==
  [][\A c \in Called, a \in Addrs :
       voterHasVoted[c][a] =>
         /\ voteRequire(campaigns[c], voterHasVoted[c][a], contributions[c][a])
              = "Already voted"
         /\ voterHasVoted'[c][a]
         /\ votes'[c][a] = votes[c][a]
         /\ voteWeight'[c][a] = voteWeight[c][a]]_vars

(* C13: the weight recorded by a vote is the sum of all of the voter's     *)
(* unrefunded contribution amounts at the time of the vote, and it is not  *)
(* changed afterwards.                                                     *)
C13_Claim ==
  [][\A c \in Called, a \in Addrs :
       /\ (~voterHasVoted[c][a] /\ voterHasVoted'[c][a])
            => voteWeight'[c][a] = SumUnrefunded(contributions[c][a])
       /\ voterHasVoted[c][a] => voteWeight'[c][a] = voteWeight[c][a]]_vars

(* the accounts whose vote on campaign c has been recorded *)
Voted(c) == {a \in Accounts : voterHasVoted[c][a]}

(* C14: the quorum that closes a vote early is a headcount: voting on a    *)
(* campaign is never closed while fewer distinct backers have voted than   *)
(* requiredVotes = floor(backersCount / 2), whatever the weight of their   *)
(* votes.  It is stated here for campaigns every backer of which has       *)
(* contributed once, where backersCount is the number of distinct backers. *)
C14_Claim ==
  [][\A c \in Called :
       (/\ campaigns[c].votingEnabled
        /\ ~campaigns'[c].votingEnabled
        /\ Cardinality(Contributors(c)) = campaigns[c].backersCount)
       => /\ campaigns'[c].requiredVotes = campaigns[c].backersCount \div 2
          /\ Cardinality({a \in Accounts : voterHasVoted'[c][a]})
               >= campaigns'[c].requiredVotes]_vars

(* the per-mode weights endVoting would accumulate for campaign c after    *)
(* the step                                                                *)
TallyAfter(c) ==
  [m \in FundingMode |->
     modeVotes(getCampaignBackers(campaigns'[c], contributions'[c]),
               voterHasVoted'[c], votes'[c], voteWeight'[c], m)]

(* m has the greatest weight in tally, and no lower ordinal has as much *)
LowestGreatest(tally, m) ==
  /\ \A k \in FundingMode : tally[k] <= tally[m]
  /\ \A k \in FundingMode : k < m => tally[k] < tally[m]

(* the vote records of campaign c are left as they are *)
VoteRecordsKept(c) ==
  /\ voterHasVoted'[c] = voterHasVoted[c]
  /\ votes'[c] = votes[c]
  /\ voteWeight'[c] = voteWeight[c]
  /\ campaigns'[c].totalVotes = campaigns[c].totalVotes

(* what a successful vote on campaign c does to the voting *)
ClosesOnQuorum(c) ==
  voterHasVoted'[c] # voterHasVoted[c] =>
    /\ campaigns[c].votingEnabled
    /\ IF campaigns'[c].totalVotes >= campaigns'[c].requiredVotes
       THEN /\ ~campaigns'[c].votingEnabled
            /\ LowestGreatest(TallyAfter(c), campaigns'[c].currentMode)
       ELSE /\ campaigns'[c].votingEnabled
            /\ campaigns'[c].currentMode = campaigns[c].currentMode

Tally(c) ==
  [m \in FundingMode |->
     modeVotes(getCampaignBackers(campaigns[c], contributions[c]),
               voterHasVoted[c], votes[c], voteWeight[c], m)]

(* C16: whenever voting on a campaign has been closed by a vote,           *)
(* currentMode is the mode whose accumulated weight is greatest, and among *)
(* modes sharing the greatest weight the one of lowest ordinal; so the     *)
(* winner is a function of the per-mode weights alone, whatever the order  *)
(* in which the votes were cast.                                           *)
C16_WinnerRule ==
  \A c \in Called :
     (~campaigns[c].votingEnabled /\ Voted(c) # {})
       => LowestGreatest(Tally(c), campaigns[c].currentMode)

(* voting closed on a tie between Debit and Reward, and Debit, the lower   *)
(* ordinal, is the winner                                                  *)
C16_Witness ==
  \E c \in Called :
     /\ ~campaigns[c].votingEnabled
     /\ Tally(c)[Debit] = Tally(c)[Reward]
     /\ Tally(c)[Debit] > 0
     /\ campaigns[c].currentMode = Debit

(* C17: a successful startVoting at time t sets votingEnabled, sets        *)
(* votingEndTime to t + VOTING_DURATION and requiredVotes to floor(n / 2), *)
(* n being the number of distinct backers of the campaign, and changes no  *)
(* other field of the campaign.                                            *)
C17_Claim ==
  [][\A c \in Called :
       (~campaigns[c].votingEnabled /\ campaigns'[c].votingEnabled)
       => campaigns'[c] =
            [campaigns[c] EXCEPT
               !.votingEnabled = TRUE,
               !.votingEndTime = now + VOTING_DURATION,
               !.requiredVotes = Cardinality(Contributors(c)) \div 2]]_vars

C19_Claim ==
  [][\A c \in Called :
       (campaigns[c].status = "UnderVoting" /\ campaigns'[c].status # "UnderVoting")
       => /\ campaigns'[c].status = "Failed"
               <=> /\ campaigns[c].currentMode = AllOrNothing
                   /\ campaigns[c].raisedAmount < campaigns[c].targetAmount
          /\ campaigns'[c].status = "Completed"
               => campaigns[c].currentMode = KeepItAll]_vars

(* C20: an Active campaign is moved on by the clock only when now >=       *)
(* deadline and raisedAmount < targetAmount, to UnderVoting if             *)
(* AllOrNothing is among its allowedModes and to Expired otherwise.        *)
C20_Claim ==
  [][\A c \in Called :
       (/\ campaigns[c].status = "Active"
        /\ campaigns'[c].status \in {"UnderVoting", "Expired"})
       => /\ now >= campaigns[c].deadline
          /\ campaigns[c].raisedAmount < campaigns[c].targetAmount
          /\ campaigns'[c].status = "UnderVoting"
               <=> InAllowedModes(campaigns[c], AllOrNothing)]_vars

(* the deadline of campaign c has passed with the target missed and the   *)
(* stored status is still Active                                           *)
Stale(c) ==
  /\ campaignExists(c)
  /\ campaigns[c].status = "Active"
  /\ now > campaigns[c].deadline
  /\ campaigns[c].raisedAmount < campaigns[c].targetAmount

(* a call, by any caller and with any argument, of a function that takes   *)
(* campaign c                                                              *)
Touch(c) ==
  \/ \E s \in Addrs, v \in Amounts, m \in ContributeModes : contribute(s, c, v, m)
  \/ \E s \in Addrs : startVoting(s, c)
  \/ \E s \in Addrs, m \in VoteModes : vote(s, c, m)
  \/ \E s \in Addrs, sa \in BOOLEAN : requestRefund(s, c, sa)
  \/ \E s \in Addrs, ca \in BOOLEAN, oa \in BOOLEAN : finalizeCampaign(s, c, ca, oa)
  \/ \E s \in Addrs : updateCampaignStatus(s, c)

(* C21: once the deadline has passed with the target missed, the next call *)
(* that touches the campaign, whichever function it is, moves the campaign *)
(* out of Active: no call on such a campaign leaves its status Active.     *)
C21_Claim ==
  \A c \in Called :
     Stale(c) => ~ENABLED (Touch(c) /\ campaigns'[c].status = "Active")

(* C22: only the campaign's creator can have its raised value disbursed:   *)
(* a step that releases the funds of a campaign is a call by its creator,  *)
(* never a call by another account.                                        *)
C22_Claim ==
  [][\A c \in Called :
       (~campaigns[c].fundsReleased /\ campaigns'[c].fundsReleased)
       => \A s \in Addrs :
            (\E ca \in BOOLEAN, oa \in BOOLEAN : finalizeCampaign(s, c, ca, oa))
              => s = campaigns[c].creator]_vars

EntriesKept(c, a) ==
  /\ Len(contributions'[c][a]) >= Len(contributions[c][a])
  /\ \A i \in 1..Len(contributions[c][a]) :
        contributions'[c][a][i] = contributions[c][a][i]

C27_AllOrNothing ==
  [][/\ \A c \in Called :
          (campaigns'[c].fundsReleased # campaigns[c].fundsReleased)
          => LET fee == feeOf(campaigns[c].raisedAmount)
                 amount == campaigns[c].raisedAmount - fee
             IN /\ campaigns'[c].fundsReleased
                /\ campaigns'[c].status = "Completed"
                /\ balance' = balance - amount - fee
                /\ received' = [[received EXCEPT ![campaigns[c].creator] = @ + amount]
                                  EXCEPT ![owner] = @ + fee]
                /\ \A s \in Addrs, ca \in BOOLEAN, oa \in BOOLEAN :
                      finalizeCampaign(s, c, ca, oa) => (ca /\ oa)
     /\ (received' # received \/ balance' < balance)
          => \E c \in Called :
                ~campaigns[c].fundsReleased /\ campaigns'[c].fundsReleased]_vars

(* a campaign holding 40 can be finalized: the call goes through or is     *)
(* rolled back according to whether the recipients accept                  *)
C27_Witness ==
  \E c \in Called :
     /\ finalizeRequire(c, campaigns[c]) = ""
     /\ campaigns[c].raisedAmount = 40
     /\ balance = 40
     /\ \A a \in Addrs : received[a] = 0

(* C28: createCampaign is rejected when targetAmount is 0, when deadline   *)
(* is not later than now, when name is empty, when allowedModes is empty   *)
(* or when minContribution > maxContribution; a rejected creation changes  *)
(* nothing, so the count stays and the id that would have been assigned    *)
(* holds no record and cannot be read.                                     *)
C28_RejectedCreation ==
  /\ [](/\ \A in \in RegistryInputs :
             (\/ in.targetAmount = 0
              \/ in.deadline <= now
              \/ in.name = ""
              \/ in.allowedModes = << >>
              \/ in.minContribution > in.maxContribution)
             => createCampaignRequire(in) # ""
        /\ campaigns[campaignIds] = EmptyCampaign
        /\ getCampaign(campaignIds).error = "Campaign does not exist")
  /\ [][\A s \in Addrs, in \in RegistryInputs :
           createCampaignRequire(in) # "" => ~createCampaign(s, in)]_vars

(* one campaign is registered and the clock has passed every deadline on   *)
(* offer: whatever createCampaign is called with is rejected, and id 1 is  *)
(* still unassigned                                                        *)
C28_Witness ==
  /\ campaignIds = 1
  /\ campaignCount = 1
  /\ \A in \in RegistryInputs : createCampaignRequire(in) # ""
  /\ campaigns[1] = EmptyCampaign

(* C29: after a successful createCampaign returning id, getCampaign(id)    *)
(* returns name, description, targetAmount, deadline, drive link and       *)
(* allowed modes as passed, the caller as creator, raisedAmount 0,         *)
(* fundsReleased false and status Active; getCampaign on an id never       *)
(* assigned fails instead of returning a default record.                   *)
C29_ReadBack ==
  /\ [](\A c \in CampaignIds :
           c >= campaignIds => getCampaign(c) = [error |-> "Campaign does not exist"])
  /\ [][campaignIds' # campaignIds
        => \A s \in Addrs, in \in RegistryInputs :
              createCampaign(s, in)
              => LET g == getCampaign(returned)'
                 IN /\ g.error = ""
                    /\ g.name = in.name
                    /\ g.description = in.description
                    /\ g.targetAmount = in.targetAmount
                    /\ g.deadline = in.deadline
                    /\ g.driveLink = in.driveLink
                    /\ g.allowedModes = in.allowedModes
                    /\ g.creator = s
                    /\ g.raisedAmount = 0
                    /\ g.fundsReleased = FALSE
                    /\ g.status = "Active"]_vars

(* two campaigns with different arguments and creators, the second just    *)
(* created and read back, and id 2 never assigned                          *)
C29_Witness ==
  /\ campaignIds = 2
  /\ returned = 1
  /\ getCampaign(0).name = "A" /\ getCampaign(0).creator = "owner"
  /\ getCampaign(1).name = "B" /\ getCampaign(1).creator = "alice"
  /\ getCampaign(1).driveLink = "lB"
  /\ getCampaign(1).status = "Active"
  /\ getCampaign(2).error = "Campaign does not exist"

(* C30: a successful contribute of amount a by backer B to campaign c      *)
(* appends exactly one entry {amount a, refunded false} to what            *)
(* getContributions(c, B) returns and increases c's raisedAmount by a; no  *)
(* other campaign's record and no other contribution sequence changes.     *)
C30_ContributeFrame ==
  [][\A c \in CampaignIds, a \in Accounts :
        (contributions'[c][a] # contributions[c][a])
        => LET v == campaigns'[c].raisedAmount - campaigns[c].raisedAmount
           IN /\ v > 0
              /\ contribute(a, c, v, Donation)
              /\ getContributions(c, a)' =
                    Append(getContributions(c, a), [amount |-> v, refunded |-> FALSE])
              /\ \A d \in CampaignIds \ {c} : campaigns'[d] = campaigns[d]
              /\ \A d \in CampaignIds, b \in Accounts :
                    (d # c \/ b # a) => contributions'[d][b] = contributions[d][b]]_vars

(* two campaigns funded by different backers, one of them with two entries *)
(* of the same backer                                                      *)
C30_Witness ==
  /\ campaignIds = 2
  /\ getContributions(0, "alice") = <<[amount |-> 40, refunded |-> FALSE],
                                      [amount |-> 40, refunded |-> FALSE]>>
  /\ campaigns[0].raisedAmount = 80
  /\ getContributions(1, "owner") = <<[amount |-> 40, refunded |-> FALSE]>>
  /\ campaigns[1].raisedAmount = 40

(* the log of the call that made the step, as far as it concerns campaign  *)
(* c: a step that adds a contribution is a contribute, one that releases   *)
(* the funds or leaves UnderVoting is a finalizeCampaign, one that enters  *)
(* UnderVoting is an updateCampaignStatus                                  *)
StepEvents(c) ==
  IF \E a \in Addrs : contributions'[c][a] # contributions[c][a]
  THEN LET a == CHOOSE x \in Addrs : contributions'[c][x] # contributions[c][x]
       IN contributeEvents(c, campaigns[c], a,
                           campaigns'[c].raisedAmount - campaigns[c].raisedAmount)
  ELSE IF campaigns[c].status = "UnderVoting" /\ campaigns'[c].status # "UnderVoting"
  THEN finalizeEvents(c, campaigns[c])
  ELSE IF campaigns[c].status # "UnderVoting" /\ campaigns'[c].status = "UnderVoting"
  THEN updateCampaignStatusEvents(c, campaigns[c])
  ELSE << >>

(* C31: every successful contribute emits ContributionMade, the event the  *)
(* activity feed listens for, naming the campaign and the contributor and  *)
(* carrying the amount; every change of a campaign's status is accompanied *)
(* by a CampaignStatusUpdated carrying the resulting status.               *)
C31_Claim ==
  [][\A c \in Called :
        LET log == StepEvents(c)
        IN /\ \A a \in Addrs :
                 (contributions'[c][a] # contributions[c][a])
                 => \E i \in DOMAIN log :
                       /\ log[i].name = "ContributionMade"
                       /\ log[i].campaignId = c
                       /\ log[i].who = a
                       /\ log[i].amount
                            = campaigns'[c].raisedAmount - campaigns[c].raisedAmount
           /\ (campaignExists(c) /\ campaigns'[c].status # campaigns[c].status)
              => \E i \in DOMAIN log :
                    /\ log[i].name = "CampaignStatusUpdated"
                    /\ log[i].campaignId = c
                    /\ log[i].status = campaigns'[c].status]_vars

(* C32: originalDeadline is set at creation to the deadline passed and no  *)
(* later operation changes it; deadline never exceeds originalDeadline,    *)
(* and it changes only by collapsing to the time of the contribution that  *)
(* reaches the target.                                                     *)
C32_OriginalDeadline ==
  /\ [](\A c \in Called : campaigns[c].deadline <= campaigns[c].originalDeadline)
  /\ [][\A c \in Called :
           /\ campaignExists(c)
              => campaigns'[c].originalDeadline = campaigns[c].originalDeadline
           /\ (~campaignExists(c) /\ c < campaignIds')
              => \E s \in Addrs, in \in CreateInputs :
                    /\ createCampaign(s, in)
                    /\ campaigns'[c].originalDeadline = in.deadline
                    /\ campaigns'[c].deadline = in.deadline
           /\ (campaignExists(c) /\ campaigns'[c].deadline # campaigns[c].deadline)
              => /\ campaigns'[c].deadline = now
                 /\ campaigns'[c].raisedAmount > campaigns[c].raisedAmount
                 /\ campaigns'[c].raisedAmount >= campaigns[c].targetAmount
                 /\ campaigns'[c].status = "Completed"]_vars

(* a campaign completed one second before its deadline, seen later on      *)
C32_Witness ==
  \E c \in Called :
     /\ campaigns[c].originalDeadline = 2
     /\ campaigns[c].deadline = 1
     /\ campaigns[c].status = "Completed"
     /\ now > 2

(* the recorded weight of the voters of campaign c who chose mode m, each  *)
(* voter once                                                              *)
WeightFor(c, m) ==
  SumOver({a \in Voted(c) : votes[c][a] = m}, voteWeight[c])

(* C36: when voting has been closed by a vote, the weight accumulated for  *)
(* each mode is the sum of the recorded weights of the distinct voters who *)
(* chose it, every voter counted once however often they contributed, and  *)
(* the per-mode weights add up to totalVotes.                              *)
C36_Claim ==
  \A c \in Called :
     (~campaigns[c].votingEnabled /\ Voted(c) # {})
       => /\ \A m \in FundingMode : Tally(c)[m] = WeightFor(c, m)
          /\ Tally(c)[Donation] + Tally(c)[Debit] + Tally(c)[Reward] + Tally(c)[Equity]
               = campaigns[c].totalVotes

RECURSIVE SumAmounts(_)
(* the amounts of all entries of a contribution sequence *)
SumAmounts(entries) ==
  IF entries = << >> THEN 0
  ELSE Head(entries).amount + SumAmounts(Tail(entries))

(* everything ever contributed to campaign c *)
TotalContributed(c) ==
  SumOver(Accounts, [a \in Accounts |-> SumAmounts(contributions[c][a])])

(* C37: value is conserved.  The contract's balance is the sum of          *)
(* raisedAmount over the campaigns whose funds are not released; what has  *)
(* been paid out is the raised amount of the released campaigns and never  *)
(* more than was contributed; and no campaign has both fundsReleased and a *)
(* refunded contribution entry.                                            *)
C37_Conservation ==
  /\ balance = SumOver({c \in CampaignIds : ~campaigns[c].fundsReleased},
                       [c \in CampaignIds |-> campaigns[c].raisedAmount])
  /\ SumOver(Accounts, received)
       = SumOver({c \in CampaignIds : campaigns[c].fundsReleased},
                 [c \in CampaignIds |-> campaigns[c].raisedAmount])
  /\ \A c \in CampaignIds :
        /\ campaigns[c].raisedAmount <= TotalContributed(c)
        /\ campaigns[c].fundsReleased
           => \A a \in Accounts : \A i \in DOMAIN contributions[c][a] :
                 ~contributions[c][a][i].refunded

(* a campaign that took 39 was paid out in full and the contract is empty  *)
C37_Witness ==
  \E c \in CampaignIds :
     /\ campaigns[c].fundsReleased
     /\ TotalContributed(c) = 39
     /\ SumOver(Accounts, received) = 39
     /\ balance = 0

(* C38: once a vote has closed the voting on a campaign, the decision is   *)
(* final: voting is never enabled again for the campaign and currentMode   *)
(* never changes, whatever startVoting and vote calls follow.              *)
C38_Claim ==
  [][\A c \in Called :
        (~campaigns[c].votingEnabled /\ Voted(c) # {})
        => /\ ~campaigns'[c].votingEnabled
           /\ campaigns'[c].currentMode = campaigns[c].currentMode]_vars

(* C39: an Active campaign has raisedAmount < targetAmount, and a campaign *)
(* that is not Active accepts no contribution, so its raisedAmount never   *)
(* increases after it has left Active.                                     *)
C39_ActiveBelowTarget ==
  /\ [](\A c \in Called :
           /\ (campaignExists(c) /\ campaigns[c].status = "Active")
              => campaigns[c].raisedAmount < campaigns[c].targetAmount
           /\ (campaignExists(c) /\ campaigns[c].status # "Active")
              => \A v \in Amounts :
                    contributeRequire(campaigns[c], v) = "Campaign is not active")
  /\ [][\A c \in Called :
           (campaignExists(c) /\ campaigns[c].status # "Active")
           => campaigns'[c].raisedAmount <= campaigns[c].raisedAmount]_vars

(* a campaign that left Active below its target, at its deadline: a        *)
(* contribution would pass every other require of contribute               *)
C39_Witness ==
  \E c \in Called :
     /\ campaigns[c].status = "UnderVoting"
     /\ campaigns[c].raisedAmount = 40
     /\ now = campaigns[c].deadline
     /\ contributeRequire_AnyStatus(campaigns[c], 40) = ""

(* nothing is stored under id c *)
Untouched(c) ==
  /\ campaigns[c] = EmptyCampaign
  /\ \A a \in Accounts :
        /\ contributions[c][a] = << >>
        /\ ~voterHasVoted[c][a]
        /\ voteWeight[c][a] = 0
        /\ votes[c][a] = Donation

(* C40: no operation creates or changes state for an id that has not been  *)
(* assigned.  For every id at or above the campaign count, contribute,     *)
(* startVoting, vote, updateCampaignStatus, finalizeCampaign and           *)
(* requestRefund are rejected for every caller, and what is stored under   *)
(* the id stays empty until createCampaign assigns it.                     *)
C40_UnassignedUntouched ==
  /\ [](\A c \in CampaignIds :
           c >= campaignCount
           => /\ Untouched(c)
              /\ ~campaignExists(c)
              /\ \A v \in Amounts : contributeRequire(campaigns[c], v) # ""
              /\ \A s \in Addrs :
                    /\ startVotingRequire(campaigns[c], s) # ""
                    /\ voteRequire(campaigns[c], voterHasVoted[c][s],
                                   contributions[c][s]) # ""
              /\ finalizeRequire(c, campaigns[c]) = "Campaign does not exist"
              /\ refundRequire(c, campaigns[c]) = "Campaign does not exist")
  /\ [][\A c \in CampaignIds :
           (c >= campaignCount /\ ~Untouched(c)')
           => /\ c = campaignIds
              /\ campaignIds' = c + 1
              /\ campaignCount' = c + 1
              /\ campaigns'[c].creator \in Addrs]_vars

(* id 0 is assigned and funded, id 1 is not: a contribution to id 1 meets  *)
(* the zero deadline of the empty record                                   *)
C40_Witness ==
  /\ campaignCount = 1
  /\ campaigns[0].raisedAmount = 40
  /\ Untouched(1)
  /\ contributeRequire(campaigns[1], 40) = "Campaign has ended"
  /\ startVotingRequire(campaigns[1], "alice") = "Only creator can start voting"

(* C33: the fee rate and the administrator that receives the fee are fixed *)
(* at deployment: no call by anyone changes them, and every disbursement   *)
(* pays the fee, at the rate of platformFee, to the deployer.              *)
C33_Claim ==
  [][\A c \in Called :
        (~campaigns[c].fundsReleased /\ campaigns'[c].fundsReleased)
        => /\ _owner = owner
           /\ received'[owner] - received[owner] >= feeOf(campaigns[c].raisedAmount)]_vars

(* C34: in a disbursement fundsReleased and the resulting status are       *)
(* written before either transfer is issued, so a finalizeCampaign call    *)
(* made from inside a recipient's receive hook meets the flag already set  *)
(* and is rejected, and the campaign's value is paid out once.             *)
C34_FlagBeforeTransfer ==
  [][\A c \in Called :
        (~campaigns[c].fundsReleased /\ campaigns'[c].fundsReleased)
        => LET seen == stateAtTransfer(campaigns[c],
                          campaigns[c].votesForAllOrNothing
                            > campaigns[c].votesForKeepRaised)
           IN /\ seen.fundsReleased
              /\ seen.status = "Completed"
              /\ campaigns'[c] = seen
              /\ finalizeRequire(c, seen) # ""
              /\ nestedFinalizeRequire(c, seen, TRUE) # ""
              /\ balance - balance' = campaigns[c].raisedAmount
              /\ SumOver(Accounts, received') - SumOver(Accounts, received)
                   = campaigns[c].raisedAmount]_vars

(* alice's campaign was paid out, once, after she had become the owner of  *)
(* the contract: payout and fee both went to her                           *)
C34_Witness ==
  /\ campaigns[0].fundsReleased
  /\ campaigns[0].creator = "alice"
  /\ campaigns[0].raisedAmount = 40
  /\ _owner = "alice"
  /\ received["alice"] = 40
  /\ balance = 0

====
